---------------------------- MODULE Spec2Model ----------------------------
(***************************************************************************)
(* A model of mqtt_exporter.py: the MQTT message handler (_on_message,     *)
(* _update_metrics, the relabelling pipeline, _export_to_prometheus) and   *)
(* the Prometheus collector (CustomCollector.collect).                     *)
(*                                                                         *)
(* Python strings are sequences of one-character strings, so that joins,   *)
(* sorting, prefixes and regular expressions are computed and not assumed. *)
(* Python dicts are sequences of <<key, value>> pairs in insertion order.  *)
(***************************************************************************)
EXTENDS Integers, Sequences, FiniteSets, TLC

(***************************************************************************)
(* Strings                                                                 *)
(***************************************************************************)

\* The characters the model uses, in code point order (what sorted() and
\* the comparison of str use).
CodePoints ==
    << "#", "(", ")", "*", "+", ",", ".", "/",
       "0", "1", "2", "3", "4", "5", "6", "7", "8", "9", ":", ";",
       "[", "\\", "]", "^", "_",
       "a", "b", "c", "d", "e", "f", "g", "h", "i", "j", "k", "l", "m",
       "n", "o", "p", "q", "r", "s", "t", "u", "v", "w", "x", "y", "z" >>

Ord(c) == CHOOSE i \in 1..Len(CodePoints) : CodePoints[i] = c

Digits == {"0", "1", "2", "3", "4", "5", "6", "7", "8", "9"}

DigitVal(c) == Ord(c) - Ord("0")

\* str < str: lexicographic by code point, a proper prefix first.
RECURSIVE StrLess(_, _)
StrLess(a, b) ==
    IF b = << >> THEN FALSE
    ELSE IF a = << >> THEN TRUE
    ELSE IF a[1] = b[1] THEN StrLess(Tail(a), Tail(b))
    ELSE Ord(a[1]) < Ord(b[1])

\* sep.join(parts)
RECURSIVE Join(_, _)
Join(sep, parts) ==
    IF parts = << >> THEN << >>
    ELSE IF Len(parts) = 1 THEN parts[1]
    ELSE parts[1] \o sep \o Join(sep, Tail(parts))

StartsWith(s, p) == Len(s) >= Len(p) /\ SubSeq(s, 1, Len(p)) = p

\* `x in s` for a one-character x
Contains(s, c) == \E i \in 1..Len(s) : s[i] = c

\* s.replace(old, new): every non-overlapping occurrence, left to right.
RECURSIVE StrReplace(_, _, _)
StrReplace(s, old, new) ==
    IF s = << >> THEN << >>
    ELSE IF StartsWith(s, old)
         THEN new \o StrReplace(SubSeq(s, Len(old) + 1, Len(s)), old, new)
         ELSE << s[1] >> \o StrReplace(Tail(s), old, new)

(***************************************************************************)
(* Regular expressions: the part of Python's `re` the configured patterns  *)
(* use.  A pattern is a string; its syntax here: a literal character, a    *)
(* backslash-escaped literal, `.`, `.*` (greedy), `[^/]+` (greedy), `^`,   *)
(* `$`, and one capture group `(` `)`.  Matching is Python's backtracking  *)
(* search: the first success in priority order.                            *)
(***************************************************************************)

NoCap == [s |-> 0, e |-> 0]

ReFail == [ok |-> FALSE, end |-> 0, cap |-> NoCap]

NotSlashClass == << "[", "^", "/", "]", "+" >>

\* the length of the longest run of characters other than "/" at pos
RECURSIVE RunNotSlash(_, _)
RunNotSlash(s, pos) ==
    IF pos > Len(s) \/ s[pos] = "/" THEN 0 ELSE 1 + RunNotSlash(s, pos + 1)

RECURSIVE ReAt(_, _, _, _, _)
RECURSIVE ReGreedy(_, _, _, _, _, _, _)

\* The match of pattern re from its position i on s at pos; cap is group 1.
ReAt(re, i, s, pos, cap) ==
    IF i > Len(re) THEN [ok |-> TRUE, end |-> pos, cap |-> cap]
    ELSE LET c == re[i] IN
      CASE c = "\\" ->
             IF pos <= Len(s) /\ s[pos] = re[i + 1]
             THEN ReAt(re, i + 2, s, pos + 1, cap) ELSE ReFail
        [] c = "." /\ i < Len(re) /\ re[i + 1] = "*" ->
             ReGreedy(re, i + 2, s, pos, cap, Len(s) + 1 - pos, 0)
        [] c = "." /\ ~(i < Len(re) /\ re[i + 1] = "*") ->
             IF pos <= Len(s)
             THEN ReAt(re, i + 1, s, pos + 1, cap) ELSE ReFail
        [] c = "[" ->
             ReGreedy(re, i + Len(NotSlashClass), s, pos, cap,
                      RunNotSlash(s, pos), 1)
        [] c = "^" ->
             IF pos = 1 THEN ReAt(re, i + 1, s, pos, cap) ELSE ReFail
        [] c = "$" ->
             IF pos = Len(s) + 1 THEN ReAt(re, i + 1, s, pos, cap) ELSE ReFail
        [] c = "(" -> ReAt(re, i + 1, s, pos, [cap EXCEPT !.s = pos])
        [] c = ")" -> ReAt(re, i + 1, s, pos, [cap EXCEPT !.e = pos])
        [] OTHER ->
             IF pos <= Len(s) /\ s[pos] = c
             THEN ReAt(re, i + 1, s, pos + 1, cap) ELSE ReFail

\* A greedy repetition that may take k characters down to kmin, the longest
\* first, followed by the rest of the pattern from j.
ReGreedy(re, j, s, pos, cap, k, kmin) ==
    IF k < kmin THEN ReFail
    ELSE LET r == ReAt(re, j, s, pos + k, cap) IN
         IF r.ok THEN r ELSE ReGreedy(re, j, s, pos, cap, k - 1, kmin)

\* re.match(pattern, string) is not None: anchored at the start only.
ReMatch(re, s) == ReAt(re, 1, s, 1, NoCap).ok

\* group 1 of a match, '' when it did not take part
Group1(s, cap) ==
    IF cap.s = 0 \/ cap.e = 0 THEN << >> ELSE SubSeq(s, cap.s, cap.e - 1)

\* the replacement template with \1 expanded
RECURSIVE Expand(_, _)
Expand(repl, g1) ==
    IF repl = << >> THEN << >>
    ELSE IF Len(repl) >= 2 /\ repl[1] = "\\" /\ repl[2] = "1"
         THEN g1 \o Expand(SubSeq(repl, 3, Len(repl)), g1)
         ELSE << repl[1] >> \o Expand(Tail(repl), g1)

\* re.sub(pattern, repl, string): every non-overlapping match from the left
\* is replaced; an empty match is followed by the character it stands on.
RECURSIVE ReSubFrom(_, _, _, _)

\* One step of re.sub at pos, r being the match tried there
ReSubStep(re, repl, s, pos, r) ==
    LET here == IF pos <= Len(s) THEN << s[pos] >> ELSE << >> IN
    IF ~r.ok THEN here \o ReSubFrom(re, repl, s, pos + 1)
    ELSE IF r.end = pos
         THEN Expand(repl, Group1(s, r.cap)) \o here
              \o ReSubFrom(re, repl, s, pos + 1)
         ELSE Expand(repl, Group1(s, r.cap)) \o ReSubFrom(re, repl, s, r.end)

ReSubFrom(re, repl, s, pos) ==
    IF pos > Len(s) + 1 THEN << >>
    ELSE ReSubStep(re, repl, s, pos, ReAt(re, 1, s, pos, NoCap))

ReSub(re, repl, s) == ReSubFrom(re, repl, s, 1)

\* re.escape(string): a backslash before each special character
EscapedChars ==
    {"(", ")", "[", "]", "{", "}", "?", "*", "+", "-", "|", "^", "$", "\\",
     ".", "&", "~", "#", " "}

RECURSIVE ReEscape(_)
ReEscape(s) ==
    IF s = << >> THEN << >>
    ELSE (IF s[1] \in EscapedChars THEN << "\\", s[1] >> ELSE << s[1] >>)
         \o ReEscape(Tail(s))

(***************************************************************************)
(* Topic matcher                                                           *)
(***************************************************************************)

\* _topic_matches without lines 148-153: the regex for every pattern
_topic_matches_RegexOnly(topic1, topic2) ==
    ReMatch(StrReplace(StrReplace(ReEscape(topic1), << "/", "\\", "#" >>,
                                  << ".", "*", "$" >>),
                       << "\\", "+" >>, NotSlashClass),
            topic2)

_topic_matches(topic1, topic2) ==
    IF topic1 = topic2 THEN TRUE
    ELSE IF ~Contains(topic1, "+") /\ ~Contains(topic1, "#") THEN FALSE
    ELSE LET escaped == ReEscape(topic1)
             regex == StrReplace(
                          StrReplace(escaped, << "/", "\\", "#" >>,
                                     << ".", "*", "$" >>),
                          << "\\", "+" >>, NotSlashClass)
         IN  ReMatch(regex, topic2)

(***************************************************************************)
(* Python values                                                           *)
(***************************************************************************)

\* A dict with string keys whose order is never read (a metric definition,
\* a stored entry) is a function on its keys: d[k] = v
SetField(d, k, v) == [x \in DOMAIN d \cup {k} |-> IF x = k THEN v ELSE d[x]]

\* d.get(k, default)
GetField(d, k, default) == IF k \in DOMAIN d THEN d[k] ELSE default

\* The empty dict {} of that kind
EmptyDict == [x \in {} |-> 0]

\* A dict whose order is read (labels, prometheus_metric, userdata) is a
\* sequence of <<key, value>> pairs in insertion order.
DictHas(d, k) == \E i \in 1..Len(d) : d[i][1] = k

DictGet(d, k) == d[CHOOSE i \in 1..Len(d) : d[i][1] = k][2]

\* d[k] = v: in place when the key is there, appended otherwise
DictSet(d, k, v) ==
    IF DictHas(d, k)
    THEN [i \in 1..Len(d) |-> IF d[i][1] = k THEN << k, v >> ELSE d[i]]
    ELSE Append(d, << k, v >>)

\* del d[k]
DictDel(d, k) == SelectSeq(d, LAMBDA kv : kv[1] # k)

\* None
None == "None"

\* A float that a short decimal literal denotes: m / 10^e, with no trailing
\* zero in the fraction, so that equal numbers are equal records.
RECURSIVE Normalize(_, _)
Normalize(m, e) ==
    IF e > 0 /\ m % 10 = 0 THEN Normalize(m \div 10, e - 1)
    ELSE [m |-> m, e |-> e]

RECURSIVE DigitsValue(_)
DigitsValue(s) ==
    IF s = << >> THEN 0
    ELSE 10 * DigitsValue(SubSeq(s, 1, Len(s) - 1)) + DigitVal(s[Len(s)])

\* float(s): digits with at most one point and at least one digit; anything
\* else in the model's alphabet raises ValueError.
IsFloatLiteral(s) ==
    /\ \A i \in 1..Len(s) : s[i] \in Digits \cup {"."}
    /\ Cardinality({i \in 1..Len(s) : s[i] = "."}) <= 1
    /\ \E i \in 1..Len(s) : s[i] \in Digits

Float(s) ==
    LET digits == SelectSeq(s, LAMBDA c : c \in Digits)
        point == IF Contains(s, ".")
                 THEN CHOOSE i \in 1..Len(s) : s[i] = "." ELSE Len(s) + 1
    IN  Normalize(DigitsValue(digits), Len(s) + 1 - point
                                        - (IF Contains(s, ".") THEN 1 ELSE 0))

\* Label names the code names
L_topic == << "t", "o", "p", "i", "c" >>

L_value == << "v", "a", "l", "u", "e" >>

L__topic__ == << "_", "_" >> \o L_topic \o << "_", "_" >>

L__msg_topic__ ==
    << "_", "_", "m", "s", "g", "_" >> \o L_topic \o << "_", "_" >>

L__value__ == << "_", "_" >> \o L_value \o << "_", "_" >>

(***************************************************************************)
(* Relabelling pipeline.  A raised exception is a result with `raised`.    *)
(***************************************************************************)

\* separator.join([labels[x] for x in source_labels]): KeyError when a
\* source label is not in labels
JoinedSource(label_config, labels) ==
    IF \E i \in 1..Len(label_config.source_labels) :
           ~DictHas(labels, label_config.source_labels[i])
    THEN [raised |-> "KeyError", source |-> << >>]
    ELSE [raised |-> "none",
          source |-> Join(label_config.separator,
                          [i \in 1..Len(label_config.source_labels) |->
                              DictGet(labels, label_config.source_labels[i])])]

\* MatchVerdict with `drop` returning what `keep` returns
MatchVerdict_DropAsKeep(action, match) ==
    IF action = "keep" \/ action = "drop" THEN match ELSE FALSE

\* What _label_config_match returns for the match of the joined source
MatchVerdict(action, match) ==
    IF action = "keep" THEN match
    ELSE IF action = "drop" THEN ~match
    ELSE FALSE

\* _label_config_match, j being the joined source
MatchJoined(label_config, j) ==
    IF j.raised # "none" THEN [raised |-> j.raised, result |-> FALSE]
    ELSE [raised |-> "none",
          result |-> MatchVerdict(label_config.action,
                                  ReMatch(label_config.regex, j.source))]

_label_config_match(label_config, labels) ==
    MatchJoined(label_config, JoinedSource(label_config, labels))

\* _label_config_rename writing target_label whether or not the source
\* matches
RenameJoined_Always(label_config, labels, j) ==
    IF j.raised # "none" THEN [raised |-> j.raised, labels |-> labels]
    ELSE [raised |-> "none",
          labels |-> DictSet(labels, label_config.target_label,
                             ReSub(label_config.regex,
                                   label_config.replacement, j.source))]

\* _label_config_rename, j being the joined source
RenameJoined(label_config, labels, j) ==
    IF j.raised # "none" THEN [raised |-> j.raised, labels |-> labels]
    ELSE IF ReMatch(label_config.regex, j.source)
         THEN [raised |-> "none",
               labels |-> DictSet(labels, label_config.target_label,
                                  ReSub(label_config.regex,
                                        label_config.replacement, j.source))]
         ELSE [raised |-> "none", labels |-> labels]

_label_config_rename(label_config, labels) ==
    RenameJoined(label_config, labels, JoinedSource(label_config, labels))

RECURSIVE _apply_label_config(_, _)

\* The loop after a replace rule, r being what _label_config_rename did
AfterRename(r, rest) ==
    IF r.raised # "none"
    THEN [raised |-> r.raised, result |-> FALSE, labels |-> r.labels]
    ELSE _apply_label_config(r.labels, rest)

\* The loop after another rule, m being what _label_config_match returned
AfterMatch(m, labels, rest) ==
    IF m.raised # "none"
    THEN [raised |-> m.raised, result |-> FALSE, labels |-> labels]
    ELSE IF ~m.result
         THEN [raised |-> "none", result |-> FALSE, labels |-> labels]
         ELSE _apply_label_config(labels, rest)

_apply_label_config(labels, label_configs) ==
    IF label_configs = << >>
    THEN [raised |-> "none", result |-> TRUE, labels |-> labels]
    ELSE IF Head(label_configs).action = "replace"
         THEN AfterRename(_label_config_rename(Head(label_configs), labels),
                          Tail(label_configs))
         ELSE AfterMatch(_label_config_match(Head(label_configs), labels),
                         labels, Tail(label_configs))

\* finalize_labels keeping a label `topic` that a rule wrote
finalize_labels_KeepUser(labels) ==
    LET l1 == DictSet(labels, L_value, DictGet(labels, L__value__))
        l2 == IF DictHas(l1, L_topic) THEN l1
              ELSE DictSet(l1, L_topic, DictGet(l1, L__topic__))
    IN  SelectSeq(l2, LAMBDA kv : ~StartsWith(kv[1], << "_", "_" >>))

finalize_labels(labels) ==
    LET l1 == DictSet(labels, L_value, DictGet(labels, L__value__))
        l2 == DictSet(l1, L_topic, DictGet(l1, L__topic__))
    IN  SelectSeq(l2, LAMBDA kv : ~StartsWith(kv[1], << "_", "_" >>))

(***************************************************************************)
(* Metric store                                                            *)
(***************************************************************************)

\* sorted(source.items(), key=itemgetter(0)): a stable insertion sort
RECURSIVE _get_sorted_tuple_list(_)

SortedInsert(rest, x) ==
    LET n == Cardinality({i \in 1..Len(rest) : ~StrLess(x[1], rest[i][1])})
    IN  SubSeq(rest, 1, n) \o << x >> \o SubSeq(rest, n + 1, Len(rest))

_get_sorted_tuple_list(source) ==
    IF source = << >> THEN << >>
    ELSE SortedInsert(
             _get_sorted_tuple_list(SubSeq(source, 1, Len(source) - 1)),
             source[Len(source)])

\* label_names, label_values = zip(*sorted_labels)
NamesOf(pairs) == [i \in 1..Len(pairs) |-> pairs[i][1]]

ValuesOf(pairs) == [i \in 1..Len(pairs) |-> pairs[i][2]]

\* ':'.join([''.join(label_names), ''.join(label_values)])
SeriesKey(label_names, label_values) ==
    Join(<< ":" >>, << Join(<< >>, label_names), Join(<< >>, label_values) >>)

\* a + b of two floats
RECURSIVE Pow10(_)
Pow10(n) == IF n = 0 THEN 1 ELSE 10 * Pow10(n - 1)

FloatAdd(a, b) ==
    IF a.e >= b.e
    THEN Normalize(a.m + b.m * Pow10(a.e - b.e), a.e)
    ELSE Normalize(a.m * Pow10(b.e - a.e) + b.m, b.e)

\* StoredValue adding the update to the value the entry held
StoredValue_Sum(entry, value) ==
    IF "value" \in DOMAIN entry THEN FloatAdd(entry.value, value) ELSE value

\* The value line 355 stores over what the entry held
StoredValue(entry, value) == value

\* WriteEntry keeping no entry but the one of key
WriteEntry_OnlyLatest(name, store, key, label_values, value) ==
    << << key, [name |-> name, label_values |-> label_values,
                value |-> value] >> >>

\* Lines 352-355: the entry of key, made if absent, with its three fields
WriteEntry(name, store, key, label_values, value) ==
    LET old == IF DictHas(store, key) THEN DictGet(store, key) ELSE EmptyDict
    IN  DictSet(store, key,
                SetField(SetField(SetField(old, "name", name),
                                  "label_values", label_values),
                         "value", StoredValue(old, value)))

\* Lines 347-355, sorted_labels being the labels without `value`, sorted
Upsert(name, metric, value, sorted_labels) ==
    [x \in DOMAIN metric \cup {"name", "label_names", "prometheus_metric"} |->
        IF x = "name" THEN name
        ELSE IF x = "label_names" THEN NamesOf(sorted_labels)
        ELSE IF x = "prometheus_metric"
        THEN WriteEntry(name, GetField(metric, "prometheus_metric", << >>),
                        SeriesKey(NamesOf(sorted_labels),
                                  ValuesOf(sorted_labels)),
                        ValuesOf(sorted_labels), value)
        ELSE metric[x]]

\* KeyLabels without the sort
KeyLabels_Unsorted(labels) == labels

\* The labels whose label names and label values make the SeriesKey
KeyLabels(labels) == _get_sorted_tuple_list(labels)

\* The metric dict after _export_to_prometheus(name, metric, labels)
_export_to_prometheus(name, metric, labels) ==
    Upsert(name, metric, DictGet(labels, L_value),
           KeyLabels(DictDel(labels, L_value)))

(***************************************************************************)
(* Message handling                                                        *)
(***************************************************************************)

\* A payload byte that is not valid UTF-8
BadByte == "\\xff"

\* Line 263: the labels every message starts from
InitialLabels(metric, msg) ==
    << << L__topic__, metric.topic >>,
       << L__msg_topic__, msg.topic >>,
       << L__value__, msg.payload >> >>

\* Lines 266-269
Relabel(metric, labels) ==
    IF "label_configs" \in DOMAIN metric
    THEN _apply_label_config(labels, metric.label_configs)
    ELSE [raised |-> "none", result |-> TRUE, labels |-> labels]

\* CoerceValue storing 0 for a text that is no number
CoerceValue_ZeroOnError(labels, text) ==
    [status |-> "accepted", raised |-> "none",
     labels |-> finalize_labels(
                    DictSet(labels, L__value__,
                            IF IsFloatLiteral(text) THEN Float(text)
                            ELSE [m |-> 0, e |-> 0]))]

\* Lines 271-281: float() of the text of __value__, then finalize_labels
CoerceValue(labels, text) ==
    IF ~IsFloatLiteral(text)
    THEN [status |-> "rejected", raised |-> "none", labels |-> << >>]
    ELSE [status |-> "accepted", raised |-> "none",
          labels |-> finalize_labels(
                         DictSet(labels, L__value__, Float(text)))]

\* Lines 268-281, r being what the relabelling returned
AfterRelabel(r) ==
    IF r.raised # "none"
    THEN [status |-> "raised", raised |-> r.raised, labels |-> << >>]
    ELSE IF ~r.result
    THEN [status |-> "rejected", raised |-> "none", labels |-> << >>]
    ELSE CoerceValue(r.labels,
                     StrReplace(DictGet(r.labels, L__value__),
                                << "," >>, << "." >>))

\* Lines 263-281 for one metric: status is "raised", "rejected" or
\* "accepted", and labels are the labels handed to the store
BuildLabels(metric, msg) ==
    IF Contains(msg.payload, BadByte)
    THEN [status |-> "raised", raised |-> "UnicodeDecodeError",
          labels |-> << >>]
    ELSE AfterRelabel(Relabel(metric, InitialLabels(metric, msg)))

\* metric.setdefault('derived_metric', {...})
SetDefaultDerived(metric) ==
    IF "derived_metric" \in DOMAIN metric THEN metric
    ELSE SetField(metric, "derived_metric",
                  [name |-> metric.name \o "_last_received",
                   help |-> "Last received message for '" \o metric.name
                                \o "'",
                   type |-> "gauge"])

\* Line 291
DerivedLabels(metric, now) ==
    << << L_topic, metric.topic >>, << L_value, [m |-> now, e |-> 0] >> >>

\* Lines 296-297
ExportDerived(metric, derived_labels) ==
    SetField(metric, "derived_metric",
             _export_to_prometheus(metric.derived_metric.name,
                                   metric.derived_metric, derived_labels))

\* Lines 283-297 for one accepted metric
StoreAccepted(metric, labels, now) ==
    ExportDerived(
        _export_to_prometheus(metric.name, SetDefaultDerived(metric), labels),
        DerivedLabels(metric, now))

PrependOutcomes(outcomes, rest) == [rest EXCEPT !.outcomes = outcomes \o @]

RECURSIVE _update_metrics(_, _, _, _)

\* One round of the loop of _update_metrics, b being the labels built
UpdateStep(metrics, i, msg, now, b) ==
    IF b.status = "raised"
    THEN [raised |-> b.raised, metrics |-> metrics, outcomes |-> << >>]
    ELSE PrependOutcomes(
             << [m |-> i, status |-> b.status, labels |-> b.labels] >>,
             _update_metrics(
                 IF b.status = "accepted"
                 THEN [metrics EXCEPT ![i] = StoreAccepted(@, b.labels, now)]
                 ELSE metrics,
                 i + 1, msg, now))

\* _update_metrics from the i-th metric of the list on: the list as it is
\* left, what was raised, and the outcome for each metric reached
_update_metrics(metrics, i, msg, now) ==
    IF i > Len(metrics)
    THEN [raised |-> "none", metrics |-> metrics, outcomes |-> << >>]
    ELSE UpdateStep(metrics, i, msg, now, BuildLabels(metrics[i], msg))

\* The outcomes of the g-th topic's metrics
Tagged(g, outcomes) ==
    [k \in 1..Len(outcomes) |->
        [g |-> g, m |-> outcomes[k].m, status |-> outcomes[k].status,
         labels |-> outcomes[k].labels]]

RECURSIVE _on_message(_, _, _, _)

\* The loop of _on_message after _update_metrics returned u for topic g
AfterUpdate(userdata, g, msg, now, u) ==
    IF u.raised # "none"
    THEN [raised |-> u.raised,
          userdata |-> [userdata EXCEPT ![g] = << @[1], u.metrics >>],
          outcomes |-> Tagged(g, u.outcomes)]
    ELSE PrependOutcomes(
             Tagged(g, u.outcomes),
             _on_message([userdata EXCEPT ![g] = << @[1], u.metrics >>],
                         g + 1, msg, now))

\* _on_message from the g-th topic of userdata on
_on_message(userdata, g, msg, now) ==
    IF g > Len(userdata)
    THEN [raised |-> "none", userdata |-> userdata, outcomes |-> << >>]
    ELSE IF ~_topic_matches(userdata[g][1], msg.topic)
    THEN _on_message(userdata, g + 1, msg, now)
    ELSE AfterUpdate(userdata, g, msg, now,
                     _update_metrics(userdata[g][2], 1, msg, now))

(***************************************************************************)
(* Collector                                                               *)
(***************************************************************************)

METRIC_TYPES == << "gauge", "counter", "histogram", "summary" >>

\* s.split(sep) for a one-character sep
RECURSIVE Split(_, _)
Split(s, sep) ==
    IF ~Contains(s, sep) THEN << s >>
    ELSE LET i == CHOOSE i \in 1..Len(s) :
                      s[i] = sep /\ \A j \in 1..(i - 1) : s[j] # sep
         IN  << SubSeq(s, 1, i - 1) >> \o Split(SubSeq(s, i + 1, Len(s)), sep)

\* dict(zip(labelnames, labels)) of prometheus_client's add_metric
Zip(names, values) ==
    [i \in 1..(IF Len(names) < Len(values) THEN Len(names) ELSE Len(values))
        |-> << names[i], values[i] >>]

\* metric.get('prometheus_metric', {})
StoreOf(metric) == GetField(metric, "prometheus_metric", << >>)

\* The label names a family is built with: the metric's label_names
FamilyLabelNames(metric) == GetField(metric, "label_names", << >>)

\* XMetricFamily(name, help, labels=...) followed by one
\* add_metric(pm['label_values'], pm['value']) per stored entry
Family(type, metric) ==
    LET store == GetField(metric, "prometheus_metric", << >>) IN
    [type |-> type, name |-> metric.name, documentation |-> metric.help,
     labelnames |-> FamilyLabelNames(metric),
     samples |-> [i \in 1..Len(store) |->
                     [labels |-> Zip(FamilyLabelNames(metric),
                                     store[i][2].label_values),
                      value |-> store[i][2].value]]]

RECURSIVE Flatten(_)
Flatten(lists) ==
    IF lists = << >> THEN << >> ELSE Head(lists) \o Flatten(Tail(lists))

\* The metric definitions of userdata, each followed by its derived metric
AllMetrics(userdata) ==
    Flatten([g \in 1..Len(userdata) |->
        Flatten([m \in 1..Len(userdata[g][2]) |->
            IF "derived_metric" \in DOMAIN userdata[g][2][m]
            THEN << userdata[g][2][m], userdata[g][2][m].derived_metric >>
            ELSE << userdata[g][2][m] >>])])

IsMetricType(t) == \E k \in 1..Len(METRIC_TYPES) : METRIC_TYPES[k] = t

OfType(all, t) == SelectSeq(all, LAMBDA metric : metric.type = t)

\* types[metric['type']].append(metric) over all: KeyError for a type that
\* is not one of METRIC_TYPES
ByType(all) ==
    IF \E i \in 1..Len(all) : ~IsMetricType(all[i].type)
    THEN [raised |-> "KeyError", gauge |-> << >>, counter |-> << >>,
          histogram |-> << >>, summary |-> << >>]
    ELSE [raised |-> "none", gauge |-> OfType(all, "gauge"),
          counter |-> OfType(all, "counter"),
          histogram |-> OfType(all, "histogram"),
          summary |-> OfType(all, "summary")]

_get_metrics_by_type(userdata) == ByType(AllMetrics(userdata))

\* The local variable c of collect while no counter family was assigned
Unbound == [unbound |-> TRUE]

IsUnbound(c) == "unbound" \in DOMAIN c

\* c after the counter loop
LastCounter(cs) == IF cs = << >> THEN Unbound ELSE cs[Len(cs)]

\* Line 419, `yield c`, in the loop that built h
HistogramYield(h, c) == c

\* Line 425, `yield c`, in the loop that built s
SummaryYield(s, c) == c

\* `yield y` and then the rest of the loop; UnboundLocalError when y is
\* a variable never assigned
YieldThen(y, rest) ==
    IF IsUnbound(y) THEN [raised |-> "UnboundLocalError", yielded |-> << >>]
    ELSE [rest EXCEPT !.yielded = << y >> \o @]

\* The histogram loop from its i-th metric on
RECURSIVE HistogramLoop(_, _, _)
HistogramLoop(histogram_metrics, i, c) ==
    IF i > Len(histogram_metrics) THEN [raised |-> "none", yielded |-> << >>]
    ELSE IF "buckets" \notin DOMAIN histogram_metrics[i]
    THEN [raised |-> "KeyError", yielded |-> << >>]
    ELSE YieldThen(
             HistogramYield(Family("histogram", histogram_metrics[i]), c),
             HistogramLoop(histogram_metrics, i + 1, c))

\* The summary loop from its i-th metric on
RECURSIVE SummaryLoop(_, _, _)
SummaryLoop(summary_metrics, i, c) ==
    IF i > Len(summary_metrics) THEN [raised |-> "none", yielded |-> << >>]
    ELSE YieldThen(
             SummaryYield(Family("histogram", summary_metrics[i]), c),
             SummaryLoop(summary_metrics, i + 1, c))

FamiliesOf(type, metrics) ==
    [i \in 1..Len(metrics) |-> Family(type, metrics[i])]

\* The generator read to its end: what it yielded before the two last
\* loops, then what they yielded, and the exception that ended it
CollectLoops(before, hs, ss) ==
    IF hs.raised # "none"
    THEN [raised |-> hs.raised, families |-> before \o hs.yielded]
    ELSE [raised |-> ss.raised,
          families |-> before \o hs.yielded \o ss.yielded]

CollectTyped(gs, cs, histogram_metrics, summary_metrics) ==
    CollectLoops(gs \o cs,
                 HistogramLoop(histogram_metrics, 1, LastCounter(cs)),
                 SummaryLoop(summary_metrics, 1, LastCounter(cs)))

\* collect after _get_metrics_by_type returned t
CollectFrom(t) ==
    IF t.raised # "none" THEN [raised |-> t.raised, families |-> << >>]
    ELSE CollectTyped(FamiliesOf("gauge", t.gauge),
                      FamiliesOf("counter", t.counter),
                      t.histogram, t.summary)

\* CustomCollector.collect run to its end with no write in between: the
\* families it yielded and the exception that ended it, if any
collect(userdata) == CollectFrom(_get_metrics_by_type(userdata))

(***************************************************************************)
(* Configurations: what _parse_config_and_add_defaults hands to the        *)
(* handler and the collector.                                              *)
(***************************************************************************)

\* The defaults of a label_config
DefaultSeparator == << ";" >>

DefaultRegex == << "^", "(", ".", "*", ")", "$" >>

DefaultReplacement == << "\\", "1" >>

Rule(action, source_labels, regex, replacement, target_label) ==
    [action |-> action, source_labels |-> source_labels,
     separator |-> DefaultSeparator, regex |-> regex,
     replacement |-> replacement, target_label |-> target_label]

\* Group metrics by topic, in the order the topics first appear
RECURSIVE _group_by_topic(_)

GroupAppend(t, metric) ==
    IF DictHas(t, metric.topic)
    THEN DictSet(t, metric.topic, Append(DictGet(t, metric.topic), metric))
    ELSE Append(t, << metric.topic, << metric >> >>)

_group_by_topic(metrics) ==
    IF metrics = << >> THEN << >>
    ELSE GroupAppend(_group_by_topic(SubSeq(metrics, 1, Len(metrics) - 1)),
                     metrics[Len(metrics)])

T_hk == << "h", "/", "k" >>

T_hb == << "h", "/", "b" >>

T_hplus == << "h", "/", "+" >>

\* h/(k)
R_hk_group == << "h", "/", "(", "k", ")" >>

\* A gauge whose replace rule matches some topics only
ConfigRelabel ==
    << [name |-> "t", help |-> "t", type |-> "gauge", topic |-> T_hplus,
        label_configs |->
          << Rule("replace", << L__msg_topic__ >>, R_hk_group,
                  DefaultReplacement, << "r" >>) >>] >>

\* A counter behind a keep and a drop rule
ConfigKeepDrop ==
    << [name |-> "c", help |-> "c", type |-> "counter", topic |-> T_hplus,
        label_configs |->
          << Rule("keep", << L__msg_topic__ >>, T_hk, DefaultReplacement,
                  << >>),
             Rule("drop", << L__value__ >>, << "2" >>, DefaultReplacement,
                  << >>) >>] >>

\* Rules that name a label only an earlier replace rule may have written
ConfigAbsentSource ==
    << [name |-> "t", help |-> "t", type |-> "gauge", topic |-> T_hplus,
        label_configs |->
          << Rule("replace", << L__msg_topic__ >>, R_hk_group,
                  DefaultReplacement, << "r" >>),
             Rule("keep", << << "r" >> >>, DefaultRegex, DefaultReplacement,
                  << >>) >>],
       [name |-> "d", help |-> "d", type |-> "gauge", topic |-> T_hplus,
        label_configs |->
          << Rule("replace", << << "r" >> >>, DefaultRegex,
                  DefaultReplacement, << "s" >>) >>] >>

\* Replace rules that write the same labels in an order that depends on
\* the message
ConfigOrder ==
    << [name |-> "t", help |-> "t", type |-> "gauge", topic |-> T_hplus,
        label_configs |->
          << Rule("replace", << L__msg_topic__ >>, T_hk, << "z" >>,
                  << "a" >>),
             Rule("replace", << L__topic__ >>, DefaultRegex, << "y" >>,
                  << "b" >>),
             Rule("replace", << L__topic__ >>, DefaultRegex, << "z" >>,
                  << "a" >>) >>] >>

\* Every declared type but counter
ConfigNoCounter ==
    << [name |-> "g", help |-> "g", type |-> "gauge", topic |-> T_hk],
       [name |-> "h", help |-> "h", type |-> "histogram", topic |-> T_hk,
        buckets |-> << "1", ",", "5" >>],
       [name |-> "s", help |-> "s", type |-> "summary", topic |-> T_hb] >>

\* Every declared type
ConfigTyped ==
    << [name |-> "g", help |-> "g", type |-> "gauge", topic |-> T_hk],
       [name |-> "c", help |-> "c", type |-> "counter", topic |-> T_hk],
       [name |-> "h", help |-> "h", type |-> "histogram", topic |-> T_hb,
        buckets |-> << "1", ",", "5" >>],
       [name |-> "s", help |-> "s", type |-> "summary", topic |-> T_hb] >>

\* A type that is not one of METRIC_TYPES
ConfigUnknownType ==
    << [name |-> "g", help |-> "g", type |-> "gauge", topic |-> T_hk],
       [name |-> "u", help |-> "u", type |-> "untyped", topic |-> T_hb] >>

Configs ==
    { ConfigRelabel, ConfigKeepDrop, ConfigAbsentSource, ConfigOrder,
      ConfigNoCounter, ConfigTyped, ConfigUnknownType }

T_hhash == << "h", "/", "#" >>

\* Replace rules that write labels x and y from the topic of the message
ConfigCollide ==
    << [name |-> "t", help |-> "t", type |-> "gauge", topic |-> T_hplus,
        label_configs |->
          << Rule("replace", << L__msg_topic__ >>, T_hk, << "a", "b" >>,
                  << "x" >>),
             Rule("replace", << L__msg_topic__ >>, T_hk, << "c" >>,
                  << "y" >>),
             Rule("replace", << L__msg_topic__ >>, T_hb, << "a" >>,
                  << "x" >>),
             Rule("replace", << L__msg_topic__ >>, T_hb, << "b", "c" >>,
                  << "y" >>) >>] >>

\* Three definitions that one message matches, two on one topic pattern:
\* the first has a rule of an unsupported action and the last a drop rule
ConfigShared ==
    << [name |-> "a", help |-> "a", type |-> "gauge", topic |-> T_hplus,
        label_configs |->
          << Rule("replace", << L__msg_topic__ >>, R_hk_group,
                  DefaultReplacement, << "r" >>),
             Rule("labelmap", << << "r" >> >>, DefaultRegex,
                  DefaultReplacement, << >>) >>],
       [name |-> "b", help |-> "b", type |-> "gauge", topic |-> T_hplus],
       [name |-> "c", help |-> "c", type |-> "gauge", topic |-> T_hhash,
        label_configs |->
          << Rule("replace", << L__msg_topic__ >>, DefaultRegex,
                  DefaultReplacement, << "r" >>),
             Rule("drop", << L__value__ >>, << "2" >>, DefaultReplacement,
                  << >>) >>] >>

\* Replace rules that write the labels topic and value, and for `u` also
\* __topic__
ConfigReserved ==
    << [name |-> "t", help |-> "t", type |-> "gauge", topic |-> T_hplus,
        label_configs |->
          << Rule("replace", << L__msg_topic__ >>, DefaultRegex,
                  DefaultReplacement, L_topic),
             Rule("replace", << L__msg_topic__ >>, T_hk, << "9" >>,
                  L_value) >>],
       [name |-> "u", help |-> "u", type |-> "gauge", topic |-> T_hplus,
        label_configs |->
          << Rule("replace", << L__msg_topic__ >>, T_hb, T_hb,
                  L__topic__),
             Rule("replace", << L__value__ >>, << "1" >>, << "7" >>,
                  L__value__) >>] >>

ConfigsR == { ConfigCollide, ConfigShared, ConfigReserved }

\* The inbound messages: topic and payload bytes
MsgTopics == { T_hk, T_hb }

Payloads == { << "1" >>, << "2", ",", "5" >>, << "w" >>, << BadByte >> }

\* time.time() in milliseconds is drawn from 1..MaxTime
MaxTime == 2

Times == 1..MaxTime

(***************************************************************************)
(* State                                                                   *)
(***************************************************************************)

VARIABLES
    userdata,   \* topic -> list of metric dicts, with what they store
    accepted,   \* history: per metric, label set -> what the accepted
                \* messages with that label set were
    last,       \* the latest _on_message call: its message and how it ended
    scrape,     \* the latest collect() since the store last changed
    writer,     \* the MQTT client thread: where it is in _on_message, and
                \* its local variables
    reader,     \* the HTTP server thread: where it is in collect(), and
                \* its local variables
    call        \* one call of a function of the module on its own: its
                \* arguments and, once it returned, its result

vars == << userdata, accepted, last, scrape, writer, reader, call >>

\* No function called on its own
NoCall ==
    [fn |-> "none", done |-> FALSE, topic1 |-> << >>, topic2 |-> << >>,
     labels |-> << >>, label_configs |-> << >>, raised |-> "none",
     result |-> FALSE, out |-> << >>]

\* _on_message handles at most MaxMessages messages under SpecC
MaxMessages == 2

\* The MQTT client thread outside _on_message
WriterIdle ==
    [pc |-> "idle", msg |-> [topic |-> << >>, payload |-> << >>],
     now |-> 0, g |-> 0, m |-> 0, labels |-> << >>, outcomes |-> << >>,
     target |-> "metric", name |-> "", value |-> [m |-> 0, e |-> 0],
     label_names |-> << >>, label_values |-> << >>, key |-> << >>,
     derived_labels |-> << >>, count |-> 0]

\* The HTTP server thread outside collect()
ReaderIdle ==
    [pc |-> "idle", todo |-> << >>, idx |-> 0, c |-> Unbound,
     fam |-> [type |-> "", name |-> "", documentation |-> "",
              labelnames |-> << >>, samples |-> << >>],
     iter |-> [exists |-> FALSE, size |-> 0, pos |-> 0],
     lv |-> << >>, families |-> << >>]

NoMessage ==
    [handled |-> FALSE, msg |-> [topic |-> << >>, payload |-> << >>],
     now |-> 0, raised |-> "none", outcomes |-> << >>]

NoScrape == [done |-> FALSE, raised |-> "none", families |-> << >>]

\* The label set of an accepted update: its sorted (name, value) pairs
\* without `value`
LabelSet(labels) == _get_sorted_tuple_list(DictDel(labels, L_value))

\* The history counts the accepted updates of a label set up to MaxUpdates
MaxUpdates == 2

\* The history of a metric after one more accepted update with `labels`:
\* per label set, the value of the latest one, the order in which the
\* first one listed its labels, and how many there were
RecordOne(history, labels) ==
    DictSet(history, LabelSet(labels),
            [value |-> DictGet(labels, L_value),
             order |-> IF DictHas(history, LabelSet(labels))
                       THEN DictGet(history, LabelSet(labels)).order
                       ELSE NamesOf(DictDel(labels, L_value)),
             updates |-> IF ~DictHas(history, LabelSet(labels)) THEN 1
                         ELSE IF DictGet(history, LabelSet(labels)).updates
                                  < MaxUpdates
                         THEN DictGet(history, LabelSet(labels)).updates + 1
                         ELSE MaxUpdates])

\* accepted after the outcomes of one message, in order
RECURSIVE Record(_, _)
Record(acc, outcomes) ==
    IF outcomes = << >> THEN acc
    ELSE Record(IF Head(outcomes).status = "accepted"
                THEN [acc EXCEPT ![Head(outcomes).g][Head(outcomes).m] =
                        RecordOne(@, Head(outcomes).labels)]
                ELSE acc,
                Tail(outcomes))

Init ==
    /\ userdata \in { _group_by_topic(c) : c \in Configs }
    /\ accepted = [g \in 1..Len(userdata) |->
                      [m \in 1..Len(userdata[g][2]) |-> << >>]]
    /\ last = NoMessage
    /\ scrape = NoScrape
    /\ writer = WriterIdle
    /\ reader = ReaderIdle
    /\ call = NoCall

\* The state after _on_message returned or raised, r being its result
Handled(msg, now, r) ==
    /\ userdata' = r.userdata
    /\ accepted' = Record(accepted, r.outcomes)
    /\ last' = [handled |-> TRUE, msg |-> msg, now |-> now,
                raised |-> r.raised, outcomes |-> r.outcomes]
    /\ scrape' = NoScrape
    /\ UNCHANGED << call, writer, reader >>

\* The MQTT client calls _on_message(client, userdata, msg)
OnMessage(msg, now) == Handled(msg, now, _on_message(userdata, 1, msg, now))

\* The state after collect() was read to its end, r being its result
Scraped(r) ==
    /\ scrape' = [done |-> TRUE, raised |-> r.raised,
                  families |-> r.families]
    /\ UNCHANGED << call, userdata, accepted, last, writer, reader >>

\* The registry calls CustomCollector.collect() and reads it to its end
Collect == Scraped(collect(userdata))

Next ==
    \/ \E t \in MsgTopics, p \in Payloads, now \in Times :
           OnMessage([topic |-> t, payload |-> p], now)
    \/ Collect

Spec == Init /\ [][Next]_vars

\* The same handlers on the configurations of ConfigsR
InitR ==
    /\ userdata \in { _group_by_topic(c) : c \in ConfigsR }
    /\ accepted = [g \in 1..Len(userdata) |->
                      [m \in 1..Len(userdata[g][2]) |-> << >>]]
    /\ last = NoMessage
    /\ scrape = NoScrape
    /\ writer = WriterIdle
    /\ reader = ReaderIdle
    /\ call = NoCall

SpecR == InitR /\ [][Next]_vars

(***************************************************************************)
(* Threads.  The MQTT client thread runs _on_message and the HTTP server   *)
(* thread reads collect(); the interpreter can switch between them after   *)
(* every statement that reads or writes a dict both can reach.             *)
(***************************************************************************)

\* The metric dict the writer exports to: the g-th topic's m-th metric or
\* its derived metric
TargetMetric ==
    IF writer.target = "metric" THEN userdata[writer.g][2][writer.m]
    ELSE userdata[writer.g][2][writer.m].derived_metric

\* userdata with the writer's target metric dict changed into metric
WithTarget(metric) ==
    [userdata EXCEPT ![writer.g][2][writer.m] =
        IF writer.target = "metric" THEN metric
        ELSE SetField(@, "derived_metric", metric)]

\* The entry of the writer's key in the target's store
TargetEntry == DictGet(TargetMetric.prometheus_metric, writer.key)

\* userdata with that entry changed into entry
WithEntry(entry) ==
    WithTarget(SetField(TargetMetric, "prometheus_metric",
                        DictSet(TargetMetric.prometheus_metric, writer.key,
                                entry)))

\* _on_message returns, or ends with the exception `raised`
WReturn(raised, outcomes) ==
    /\ writer' = [WriterIdle EXCEPT !.count = writer.count]
    /\ last' = [handled |-> TRUE, msg |-> writer.msg, now |-> writer.now,
                raised |-> raised, outcomes |-> outcomes]
    /\ accepted' = Record(accepted, outcomes)
    /\ scrape' = NoScrape
    /\ UNCHANGED << call, userdata, reader >>

\* The MQTT client thread calls _on_message(client, userdata, msg)
W_on_message(msg, now) ==
    /\ writer.pc = "idle"
    /\ writer.count < MaxMessages
    /\ writer' = [writer EXCEPT !.pc = "topics", !.msg = msg, !.now = now,
                                !.g = 1, !.count = @ + 1]
    /\ UNCHANGED << call, userdata, accepted, last, scrape, reader >>

\* Lines 306-308: the next topic of userdata
W_topic ==
    /\ writer.pc = "topics"
    /\ IF writer.g > Len(userdata)
       THEN WReturn("none", writer.outcomes)
       ELSE /\ writer' =
                  IF _topic_matches(userdata[writer.g][1], writer.msg.topic)
                  THEN [writer EXCEPT !.pc = "metrics", !.m = 1]
                  ELSE [writer EXCEPT !.g = @ + 1]
            /\ UNCHANGED << call, userdata, accepted, last, scrape, reader >>

\* Lines 260-281 for the next metric of the topic, b being the labels
\* built: they touch the metric's configuration and local variables only
WLabelsBuilt(b) ==
    IF b.status = "raised"
    THEN WReturn(b.raised, writer.outcomes)
    ELSE /\ writer' =
               [writer EXCEPT
                  !.outcomes = Append(@, [g |-> writer.g, m |-> writer.m,
                                          status |-> b.status,
                                          labels |-> b.labels]),
                  !.labels = b.labels,
                  !.pc = IF b.status = "accepted" THEN "derived"
                         ELSE "metrics",
                  !.m = IF b.status = "accepted" THEN @ ELSE @ + 1]
         /\ UNCHANGED << call, userdata, accepted, last, scrape, reader >>

W_labels ==
    /\ writer.pc = "metrics"
    /\ IF writer.m > Len(userdata[writer.g][2])
       THEN /\ writer' = [writer EXCEPT !.pc = "topics", !.g = @ + 1]
            /\ UNCHANGED << call, userdata, accepted, last, scrape, reader >>
       ELSE WLabelsBuilt(BuildLabels(userdata[writer.g][2][writer.m],
                                     writer.msg))

\* Lines 343-347 of _export_to_prometheus(name, metric, labels): locals
WithLocals(w, target, name, value, sorted_labels) ==
    [w EXCEPT !.pc = "name", !.target = target, !.name = name,
              !.value = value,
              !.label_names = NamesOf(sorted_labels),
              !.label_values = ValuesOf(sorted_labels),
              !.key = SeriesKey(NamesOf(sorted_labels),
                                ValuesOf(sorted_labels))]

\* Lines 283-292, and the call of line 294 up to line 347
W_setdefault_derived ==
    /\ writer.pc = "derived"
    /\ userdata' = [userdata EXCEPT ![writer.g][2][writer.m] =
                       SetDefaultDerived(@)]
    /\ writer' = WithLocals(
                     [writer EXCEPT !.derived_labels =
                         DerivedLabels(userdata[writer.g][2][writer.m],
                                       writer.now)],
                     "metric", userdata[writer.g][2][writer.m].name,
                     DictGet(writer.labels, L_value),
                     KeyLabels(DictDel(writer.labels, L_value)))
    /\ UNCHANGED << call, accepted, last, scrape, reader >>

\* Line 348
W_name ==
    /\ writer.pc = "name"
    /\ userdata' = WithTarget(SetField(TargetMetric, "name", writer.name))
    /\ writer' = [writer EXCEPT !.pc = "label_names"]
    /\ UNCHANGED << call, accepted, last, scrape, reader >>

\* Line 349
W_label_names ==
    /\ writer.pc = "label_names"
    /\ userdata' = WithTarget(SetField(TargetMetric, "label_names",
                                       writer.label_names))
    /\ writer' = [writer EXCEPT !.pc = "store"]
    /\ UNCHANGED << call, accepted, last, scrape, reader >>

\* Line 352: metric.setdefault('prometheus_metric', {})
W_setdefault_store ==
    /\ writer.pc = "store"
    /\ userdata' = WithTarget(
                       SetField(TargetMetric, "prometheus_metric",
                                GetField(TargetMetric, "prometheus_metric",
                                         << >>)))
    /\ writer' = [writer EXCEPT !.pc = "entry"]
    /\ UNCHANGED << call, accepted, last, scrape, reader >>

\* Line 352: .setdefault(key, {})
W_setdefault_entry ==
    /\ writer.pc = "entry"
    /\ userdata' = IF DictHas(TargetMetric.prometheus_metric, writer.key)
                   THEN userdata
                   ELSE WithEntry(EmptyDict)
    /\ writer' = [writer EXCEPT !.pc = "entry_name"]
    /\ UNCHANGED << call, accepted, last, scrape, reader >>

\* Line 353
W_entry_name ==
    /\ writer.pc = "entry_name"
    /\ userdata' = WithEntry(SetField(TargetEntry, "name", writer.name))
    /\ writer' = [writer EXCEPT !.pc = "entry_label_values"]
    /\ UNCHANGED << call, accepted, last, scrape, reader >>

\* Line 354
W_entry_label_values ==
    /\ writer.pc = "entry_label_values"
    /\ userdata' = WithEntry(SetField(TargetEntry, "label_values",
                                      writer.label_values))
    /\ writer' = [writer EXCEPT !.pc = "entry_value"]
    /\ UNCHANGED << call, accepted, last, scrape, reader >>

\* Line 355, and then the call of lines 296-297 up to line 347, or the
\* next metric of the loop
W_entry_value ==
    /\ writer.pc = "entry_value"
    /\ userdata' = WithEntry(SetField(TargetEntry, "value",
                                      StoredValue(TargetEntry,
                                                  writer.value)))
    /\ writer' =
         IF writer.target = "metric"
         THEN WithLocals(writer, "derived",
                  userdata[writer.g][2][writer.m].derived_metric.name,
                  DictGet(writer.derived_labels, L_value),
                  KeyLabels(DictDel(writer.derived_labels, L_value)))
         ELSE [writer EXCEPT !.pc = "metrics", !.m = @ + 1]
    /\ UNCHANGED << call, accepted, last, scrape, reader >>

\* The metric dict a reference of the reader points to
Deref(ref) ==
    IF ref.derived THEN userdata[ref.g][2][ref.m].derived_metric
    ELSE userdata[ref.g][2][ref.m]

\* References to the metric dicts of userdata, each followed by its derived
\* metric, in the order of AllMetrics
AllRefs ==
    Flatten([g \in 1..Len(userdata) |->
        Flatten([m \in 1..Len(userdata[g][2]) |->
            << [g |-> g, m |-> m, derived |-> FALSE] >>
            \o (IF "derived_metric" \in DOMAIN userdata[g][2][m]
                THEN << [g |-> g, m |-> m, derived |-> TRUE] >>
                ELSE << >>)])])

\* The references of one list of _get_metrics_by_type, with the loop of
\* collect that goes through them
RefsOfType(t) ==
    LET refs == SelectSeq(AllRefs, LAMBDA ref : Deref(ref).type = t)
    IN  [i \in 1..Len(refs) |->
            [g |-> refs[i].g, m |-> refs[i].m, derived |-> refs[i].derived,
             type |-> t]]

\* The store the reader iterates over
ReaderStore == StoreOf(Deref(reader.todo[reader.idx]))

\* The generator ends, with the exception `raised` if any
RFinish(raised) ==
    /\ scrape' = [done |-> TRUE, raised |-> raised,
                  families |-> reader.families]
    /\ reader' = ReaderIdle
    /\ UNCHANGED << call, userdata, accepted, last, writer >>

\* Line 399: the four lists of _get_metrics_by_type
R_get_metrics_by_type ==
    /\ reader.pc = "idle"
    /\ IF \E i \in 1..Len(AllRefs) : ~IsMetricType(Deref(AllRefs[i]).type)
       THEN RFinish("KeyError")
       ELSE /\ reader' = [reader EXCEPT
                            !.pc = "family",
                            !.todo = RefsOfType("gauge")
                                       \o RefsOfType("counter")
                                       \o RefsOfType("histogram")
                                       \o RefsOfType("summary"),
                            !.idx = 1]
            /\ UNCHANGED << call, userdata, accepted, last, scrape, writer >>

\* The class the loop of that type builds its family with
FamilyClass(type) == IF type = "summary" THEN "histogram" ELSE type

\* Lines 402-403 and their like: the family of the next metric is built
\* and the iteration over the items of its store starts
RFamilyOf(type, metric) ==
    IF type = "histogram" /\ "buckets" \notin DOMAIN metric
    THEN RFinish("KeyError")
    ELSE /\ reader' =
               [reader EXCEPT
                  !.pc = "next",
                  !.fam = [type |-> FamilyClass(type), name |-> metric.name,
                           documentation |-> metric.help,
                           labelnames |-> FamilyLabelNames(metric),
                           samples |-> << >>],
                  !.iter = [exists |-> "prometheus_metric" \in DOMAIN metric,
                            size |-> Len(StoreOf(metric)), pos |-> 0]]
         /\ UNCHANGED << call, userdata, accepted, last, scrape, writer >>

R_family ==
    /\ reader.pc = "family"
    /\ IF reader.idx > Len(reader.todo)
       THEN RFinish("none")
       ELSE RFamilyOf(reader.todo[reader.idx].type,
                      Deref(reader.todo[reader.idx]))

\* The yield that ends the loop body: y is what is yielded, c the local
\* variable c after it
RYield(y, c) ==
    IF IsUnbound(y) THEN RFinish("UnboundLocalError")
    ELSE /\ reader' = [reader EXCEPT !.pc = "family", !.idx = @ + 1,
                                     !.families = Append(@, y), !.c = c]
         /\ UNCHANGED << call, userdata, accepted, last, scrape, writer >>

\* The next item of the dict iteration: RuntimeError when the dict changed
\* size since the iteration started
R_next ==
    /\ reader.pc = "next"
    /\ IF reader.iter.exists /\ Len(ReaderStore) # reader.iter.size
       THEN RFinish("RuntimeError")
       ELSE IF reader.iter.pos < reader.iter.size
       THEN /\ reader' = [reader EXCEPT !.pc = "label_values",
                                        !.iter.pos = @ + 1]
            /\ UNCHANGED << call, userdata, accepted, last, scrape, writer >>
       ELSE IF reader.todo[reader.idx].type = "gauge"
       THEN RYield(reader.fam, reader.c)
       ELSE IF reader.todo[reader.idx].type = "counter"
       THEN RYield(reader.fam, reader.fam)
       ELSE IF reader.todo[reader.idx].type = "histogram"
       THEN RYield(HistogramYield(reader.fam, reader.c), reader.c)
       ELSE RYield(SummaryYield(reader.fam, reader.c), reader.c)

\* The entry pm the reader holds
ReaderEntry == ReaderStore[reader.iter.pos][2]

\* pm['label_values'], the first argument of add_metric
R_label_values ==
    /\ reader.pc = "label_values"
    /\ IF "label_values" \notin DOMAIN ReaderEntry
       THEN RFinish("KeyError")
       ELSE /\ reader' = [reader EXCEPT !.pc = "value",
                                        !.lv = ReaderEntry.label_values]
            /\ UNCHANGED << call, userdata, accepted, last, scrape, writer >>

\* pm['value'], the second argument of add_metric, and add_metric
R_value ==
    /\ reader.pc = "value"
    /\ IF "value" \notin DOMAIN ReaderEntry
       THEN RFinish("KeyError")
       ELSE /\ reader' =
                  [reader EXCEPT
                     !.pc = "next",
                     !.fam.samples =
                        Append(@, [labels |-> Zip(reader.fam.labelnames,
                                                  reader.lv),
                                   value |-> ReaderEntry.value])]
            /\ UNCHANGED << call, userdata, accepted, last, scrape, writer >>

\* One gauge with a replace rule, nothing stored yet
InitC == Init /\ userdata = _group_by_topic(ConfigRelabel)

NextC ==
    \/ \E t \in MsgTopics, p \in Payloads, now \in Times :
           W_on_message([topic |-> t, payload |-> p], now)
    \/ W_topic
    \/ W_labels
    \/ W_setdefault_derived
    \/ W_name
    \/ W_label_names
    \/ W_setdefault_store
    \/ W_setdefault_entry
    \/ W_entry_name
    \/ W_entry_label_values
    \/ W_entry_value
    \/ R_get_metrics_by_type
    \/ R_family
    \/ R_next
    \/ R_label_values
    \/ R_value

SpecC == InitC /\ [][NextC]_vars

(***************************************************************************)
(* Functions called on their own, on arguments drawn from bounded sets     *)
(***************************************************************************)

\* The strings of 1..n characters of chars
StringsUpTo(chars, n) == UNION { [1..k -> chars] : k \in 1..n }

\* Topic patterns have at most MaxPatternLen characters
MaxPatternLen == 3

\* Message topics have at most MaxTopicLen characters
MaxTopicLen == 3

PatternChars == { "a", "/", "+", "#" }

TopicChars == { "a", "b", "/" }

\* _topic_matches(topic1, topic2) on a pattern and a topic
TopicCalls ==
    { [NoCall EXCEPT !.fn = "_topic_matches", !.topic1 = p, !.topic2 = t] :
        p \in StringsUpTo(PatternChars, MaxPatternLen),
        t \in StringsUpTo(TopicChars, MaxTopicLen) }

\* A rule list has at most MaxRules rules
MaxRules == 3

\* The labels _update_metrics starts from, for pattern h/+
CallLabels ==
    { InitialLabels([topic |-> T_hplus], [topic |-> t, payload |-> p]) :
        t \in { T_hk, T_hb }, p \in { << "1" >>, << "2", ",", "5" >> } }

\* Rules of every action; label r is written by two of them and read by
\* two others
CallRules ==
    { Rule("replace", << L__msg_topic__ >>, R_hk_group, DefaultReplacement,
           << "r" >>),
      Rule("replace", << L__value__ >>, << "1" >>, << "z" >>, << "r" >>),
      Rule("keep", << << "r" >> >>, << "k" >>, DefaultReplacement, << >>),
      Rule("drop", << L__value__ >>, << "2" >>, DefaultReplacement, << >>),
      Rule("labelmap", << L__value__ >>, DefaultRegex, DefaultReplacement,
           << >>),
      Rule("labelmap", << << "r" >> >>, DefaultRegex, DefaultReplacement,
           << >>) }

RuleLists == UNION { [1..n -> CallRules] : n \in 0..MaxRules }

\* _apply_label_config(labels, label_configs)
RuleCalls ==
    { [NoCall EXCEPT !.fn = "_apply_label_config", !.labels = l,
                     !.label_configs = lcs] :
        l \in CallLabels, lcs \in RuleLists }

Calls == TopicCalls \cup RuleCalls

\* What `call` is once _topic_matches returned
Call_topic_matches ==
    /\ call.fn = "_topic_matches"
    /\ ~call.done
    /\ call' = [call EXCEPT !.done = TRUE,
                            !.result = _topic_matches(call.topic1,
                                                      call.topic2)]
    /\ UNCHANGED << userdata, accepted, last, scrape, writer, reader >>

\* What `call` is once _apply_label_config returned or raised: `out` is
\* the dict `labels` the caller passed, as the call left it
Applied(r) ==
    /\ call' = [call EXCEPT !.done = TRUE, !.raised = r.raised,
                            !.result = r.result, !.out = r.labels]
    /\ UNCHANGED << userdata, accepted, last, scrape, writer, reader >>

Call_apply_label_config ==
    /\ call.fn = "_apply_label_config"
    /\ ~call.done
    /\ Applied(_apply_label_config(call.labels, call.label_configs))

InitP ==
    /\ userdata = << >>
    /\ accepted = << >>
    /\ last = NoMessage
    /\ scrape = NoScrape
    /\ writer = WriterIdle
    /\ reader = ReaderIdle
    /\ call \in Calls

NextP ==
    \/ Call_topic_matches
    \/ Call_apply_label_config

SpecP == InitP /\ [][NextP]_vars

(***************************************************************************)
(* Properties                                                              *)
(***************************************************************************)

\* The configured metric definitions: topic index, index in the topic's list
DefIds ==
    UNION { { << g, m >> : m \in 1..Len(userdata[g][2]) } :
            g \in 1..Len(userdata) }

MetricAt(d) == userdata[d[1]][2][d[2]]

HistoryOf(d) == accepted[d[1]][d[2]]

\* The places of the families of that name in the latest scrape
FamiliesNamed(name) ==
    { i \in 1..Len(scrape.families) : scrape.families[i].name = name }

\* The outcomes of the latest message for definition d
OutcomesFor(d) ==
    { k \in 1..Len(last.outcomes) :
        last.outcomes[k].g = d[1] /\ last.outcomes[k].m = d[2] }

\* C2: every sample exported for a definition pairs each stored label value
\* with the label name it was stored under: the labels of the sample of a
\* stored series are that series' own label set, also when the series of
\* the definition were stored with different label names.
C2_SamplesPairOwnLabelNames ==
    scrape.done =>
      \A d \in DefIds : \A f \in FamiliesNamed(MetricAt(d).name) :
        scrape.families[f].type \in {"gauge", "counter"} =>
          /\ Len(scrape.families[f].samples) = Len(StoreOf(MetricAt(d)))
          /\ \A k \in 1..Len(scrape.families[f].samples) :
               \A j \in 1..Len(HistoryOf(d)) :
                 SeriesKey(NamesOf(HistoryOf(d)[j][1]),
                           ValuesOf(HistoryOf(d)[j][1]))
                     = StoreOf(MetricAt(d))[k][1]
                 => scrape.families[f].samples[k].labels = HistoryOf(d)[j][1]

\* C3: on each scrape, every registered definition of a declared type
\* (gauge, counter, histogram, summary), derived ones included, has exactly
\* one family in what collect yields, with its name and its stored series,
\* and collect ends without an error.
C3_OneOwnFamilyPerDefinition ==
    ( /\ scrape.done
      /\ \A i \in 1..Len(AllMetrics(userdata)) :
             IsMetricType(AllMetrics(userdata)[i].type) )
    => /\ scrape.raised = "none"
       /\ \A i \in 1..Len(AllMetrics(userdata)) :
            /\ Cardinality(FamiliesNamed(AllMetrics(userdata)[i].name)) = 1
            /\ \A f \in FamiliesNamed(AllMetrics(userdata)[i].name) :
                 Len(scrape.families[f].samples)
                     = Len(StoreOf(AllMetrics(userdata)[i]))

\* C4: _on_message never ends with an error for a message whose payload is
\* text: it returns, with every definition of a matching topic accepted or
\* rejected, also when a rule names a source label that is not there.
C4_HandlerNeverRaises ==
    (last.handled /\ ~Contains(last.msg.payload, BadByte))
    => /\ last.raised = "none"
       /\ \A d \in DefIds :
            _topic_matches(userdata[d[1]][1], last.msg.topic)
            => \E k \in OutcomesFor(d) :
                   last.outcomes[k].status \in {"accepted", "rejected"}

\* C5: with a definition whose type is none of METRIC_TYPES, a scrape
\* still completes and holds the family of every definition of a declared
\* type.
C5_UnknownTypeScrapeCompletes ==
    (scrape.done /\ \E d \in DefIds : ~IsMetricType(MetricAt(d).type))
    => /\ scrape.raised = "none"
       /\ \A d \in DefIds :
            IsMetricType(MetricAt(d).type)
            => FamiliesNamed(MetricAt(d).name) # {}

\* The rules of a definition
RulesOf(metric) == GetField(metric, "label_configs", << >>)

\* The k-th rule of the definition is a keep or drop rule that the message
\* reaches and whose joined source is on the rejecting side of its regex
KeepDropRejectsAt(metric, msg, k, before) ==
    /\ RulesOf(metric)[k].action \in {"keep", "drop"}
    /\ before.raised = "none"
    /\ before.result
    /\ JoinedSource(RulesOf(metric)[k], before.labels).raised = "none"
    /\ (RulesOf(metric)[k].action = "keep")
         <=> ~ReMatch(RulesOf(metric)[k].regex,
                      JoinedSource(RulesOf(metric)[k], before.labels).source)

KeepDropRejects(metric, msg) ==
    \E k \in 1..Len(RulesOf(metric)) :
        KeepDropRejectsAt(metric, msg, k,
            _apply_label_config(InitialLabels(metric, msg),
                                SubSeq(RulesOf(metric), 1, k - 1)))

\* C6: when a keep rule's joined source does not match its regex, or a drop
\* rule's joined source matches its regex, the message is rejected for the
\* definition and the definition is left as it was: no series inserted or
\* updated, no derived definition created or updated.
C6_KeepDropLeavesStoreUnchanged ==
    [][ \A d \in DefIds :
          ( /\ _topic_matches(userdata[d[1]][1], last'.msg.topic)
            /\ KeepDropRejects(MetricAt(d), last'.msg) )
          => /\ userdata'[d[1]][2][d[2]] = MetricAt(d)
             /\ accepted'[d[1]][d[2]] = HistoryOf(d)
             /\ \A k \in 1..Len(last'.outcomes) :
                  (last'.outcomes[k].g = d[1] /\ last'.outcomes[k].m = d[2])
                  => last'.outcomes[k].status = "rejected" ]_vars

\* A definition that holds a series and its derived definition, for which
\* the latest message was rejected by a keep or drop rule
C6_Witness ==
    /\ last.handled
    /\ \E d \in DefIds :
         /\ _topic_matches(userdata[d[1]][1], last.msg.topic)
         /\ KeepDropRejects(MetricAt(d), last.msg)
         /\ StoreOf(MetricAt(d)) # << >>
         /\ "derived_metric" \in DOMAIN MetricAt(d)
         /\ \E k \in OutcomesFor(d) : last.outcomes[k].status = "rejected"

\* The final __value__ of the message for the definition is no number
NonNumericFinalOf(r) ==
    /\ r.raised = "none"
    /\ r.result
    /\ ~IsFloatLiteral(StrReplace(DictGet(r.labels, L__value__),
                                  << "," >>, << "." >>))

NonNumericFinal(metric, msg) ==
    /\ ~Contains(msg.payload, BadByte)
    /\ NonNumericFinalOf(Relabel(metric, InitialLabels(metric, msg)))

\* C7: when the final __value__ of a message, with ',' turned into '.',
\* is no number, handling the message leaves the definition as it was: no
\* series inserted or updated, no derived definition created or updated.
C7_NonNumericLeavesStoreUnchanged ==
    [][ \A d \in DefIds :
          ( /\ _topic_matches(userdata[d[1]][1], last'.msg.topic)
            /\ NonNumericFinal(MetricAt(d), last'.msg) )
          => /\ userdata'[d[1]][2][d[2]] = MetricAt(d)
             /\ accepted'[d[1]][d[2]] = HistoryOf(d) ]_vars

\* A definition that holds a series and its derived definition, for which
\* the latest message had a final __value__ that is no number
C7_Witness ==
    /\ last.handled
    /\ \E d \in DefIds :
         /\ _topic_matches(userdata[d[1]][1], last.msg.topic)
         /\ NonNumericFinal(MetricAt(d), last.msg)
         /\ StoreOf(MetricAt(d)) # << >>
         /\ "derived_metric" \in DOMAIN MetricAt(d)
         /\ OutcomesFor(d) # {}

\* The orders in which the pairs of a label set can be inserted
Orderings(L) ==
    { [i \in 1..Len(L) |-> L[p[i]]] :
        p \in { q \in [1..Len(L) -> 1..Len(L)] :
                  \A a, b \in 1..Len(L) : a # b => q[a] # q[b] } }

\* The store entry e holds the label set L, in whatever order it is keyed
EntryIsFor(e, L) ==
    \E P \in Orderings(L) :
        /\ e[1] = SeriesKey(NamesOf(P), ValuesOf(P))
        /\ e[2].label_values = ValuesOf(P)

EntriesFor(store, L) == { i \in 1..Len(store) : EntryIsFor(store[i], L) }

\* C8: upserts of label sets with the same content resolve to the same
\* SeriesKey in whatever order the labels were inserted: after an accepted
\* update the definition holds one entry for that label set, with the
\* value of that update.
C8_SameContentOneEntry ==
    \A d \in DefIds : \A k \in OutcomesFor(d) :
        last.outcomes[k].status = "accepted"
        => /\ Cardinality(EntriesFor(StoreOf(MetricAt(d)),
                              LabelSet(last.outcomes[k].labels))) = 1
           /\ \A i \in EntriesFor(StoreOf(MetricAt(d)),
                                  LabelSet(last.outcomes[k].labels)) :
                  StoreOf(MetricAt(d))[i][2].value
                      = DictGet(last.outcomes[k].labels, L_value)

\* The latest update of a definition was built in another insertion order
\* than the first update with the same label content
C8_Witness ==
    \E d \in DefIds : \E k \in OutcomesFor(d) :
        /\ last.outcomes[k].status = "accepted"
        /\ DictHas(HistoryOf(d), LabelSet(last.outcomes[k].labels))
        /\ DictGet(HistoryOf(d), LabelSet(last.outcomes[k].labels)).updates
               >= 2
        /\ DictGet(HistoryOf(d), LabelSet(last.outcomes[k].labels)).order
               # NamesOf(DictDel(last.outcomes[k].labels, L_value))
        /\ Len(StoreOf(MetricAt(d))) = 1

\* The store entry e is the one an upsert of the label set L writes
EntryMatches(e, L) ==
    /\ e[1] = SeriesKey(NamesOf(L), ValuesOf(L))
    /\ e[2].label_values = ValuesOf(L)

\* C9: the value stored for each series of a definition, of any type, is
\* the value of the most recent accepted message with that series' label
\* set: values are not combined across messages and rejected messages do
\* not alter them.
C9_ValueIsLatestAccepted ==
    \A d \in DefIds : \A i \in 1..Len(StoreOf(MetricAt(d))) :
        /\ \E j \in 1..Len(HistoryOf(d)) :
               EntryMatches(StoreOf(MetricAt(d))[i], HistoryOf(d)[j][1])
        /\ \A j \in 1..Len(HistoryOf(d)) :
               EntryMatches(StoreOf(MetricAt(d))[i], HistoryOf(d)[j][1])
               => StoreOf(MetricAt(d))[i][2].value = HistoryOf(d)[j][2].value

\* A counter whose series was updated twice and for which the latest
\* message was rejected
C9_Witness ==
    \E d \in DefIds :
        /\ MetricAt(d).type = "counter"
        /\ \E j \in 1..Len(HistoryOf(d)) : HistoryOf(d)[j][2].updates >= 2
        /\ \E k \in OutcomesFor(d) : last.outcomes[k].status = "rejected"

\* The name line 285 gives the derived definition
DerivedName(metric) == metric.name \o "_last_received"

\* C10: the derived 'last received' gauge of a definition exists and is
\* exported if and only if a message was accepted for the definition, and
\* it holds exactly one series, labelled only with `topic`, the configured
\* topic pattern of the definition.
C10_DerivedIffAccepted ==
    \A d \in DefIds :
        /\ ("derived_metric" \in DOMAIN MetricAt(d)) <=> (HistoryOf(d) # << >>)
        /\ "derived_metric" \in DOMAIN MetricAt(d)
           => /\ MetricAt(d).derived_metric.name = DerivedName(MetricAt(d))
              /\ Len(StoreOf(MetricAt(d).derived_metric)) = 1
              /\ MetricAt(d).derived_metric.label_names = << L_topic >>
              /\ StoreOf(MetricAt(d).derived_metric)[1][2].label_values
                     = << MetricAt(d).topic >>
        /\ scrape.done
           => ( ( /\ scrape.raised = "none"
                  /\ FamiliesNamed(DerivedName(MetricAt(d))) # {} )
                <=> (HistoryOf(d) # << >>) )

\* C1: with _on_message and collect() interleaved statement by statement,
\* the scrape never observes a partially written entry: every entry it
\* reads has both its label values and its value.
C1_NoTornEntryObserved ==
    reader.pc \in {"label_values", "value"}
    => {"label_values", "value"} \subseteq DOMAIN ReaderEntry

\* The '/'-separated levels of a topic or a pattern
Levels(s) == Split(s, "/")

\* Every `+` of the pattern is a whole level and there is no `#`
PlusPattern(p) ==
    /\ Contains(p, "+")
    /\ ~Contains(p, "#")
    /\ \A i \in 1..Len(Levels(p)) :
           Contains(Levels(p)[i], "+") => Levels(p)[i] = << "+" >>

\* The topic has the levels of the pattern, a `+` being any non-empty level
SameLevels(p, t) ==
    /\ Len(Levels(p)) = Len(Levels(t))
    /\ \A i \in 1..Len(Levels(p)) :
           IF Levels(p)[i] = << "+" >> THEN Levels(t)[i] # << >>
           ELSE Levels(p)[i] = Levels(t)[i]

\* C12: for a pattern with `+` and no `#`, _topic_matches is true only if
\* the topic has as many levels as the pattern, each literal level equal to
\* the topic's and each `+` standing for one non-empty level.
C12_PlusMatchesOneLevel ==
    (call.fn = "_topic_matches" /\ call.done /\ PlusPattern(call.topic1)
     /\ call.result)
    => SameLevels(call.topic1, call.topic2)

\* The pattern is P/# with P free of wildcards
HashPattern(p) ==
    /\ Len(p) >= 3
    /\ SubSeq(p, Len(p) - 1, Len(p)) = << "/", "#" >>
    /\ ~Contains(SubSeq(p, 1, Len(p) - 2), "+")
    /\ ~Contains(SubSeq(p, 1, Len(p) - 2), "#")

\* C13: for a pattern P/# with P free of wildcards, _topic_matches is true
\* exactly for the topics equal to P or beginning with P/.
C13_HashMatchesTrailingLevels ==
    (call.fn = "_topic_matches" /\ call.done /\ HashPattern(call.topic1))
    => (call.result
        <=> \/ call.topic2 = SubSeq(call.topic1, 1, Len(call.topic1) - 2)
            \/ StartsWith(call.topic2,
                          SubSeq(call.topic1, 1, Len(call.topic1) - 1)))

\* C14: for a pattern with neither `+` nor `#`, _topic_matches is true if
\* and only if pattern and topic are equal.
C14_LiteralMatchesEqual ==
    (call.fn = "_topic_matches" /\ call.done
     /\ ~Contains(call.topic1, "+") /\ ~Contains(call.topic1, "#"))
    => (call.result <=> call.topic1 = call.topic2)

\* A literal pattern was matched against a longer topic it is a prefix of
C14_Witness ==
    /\ call.fn = "_topic_matches"
    /\ call.done
    /\ ~Contains(call.topic1, "+") /\ ~Contains(call.topic1, "#")
    /\ StartsWith(call.topic2, call.topic1)
    /\ Len(call.topic2) > Len(call.topic1)
    /\ ~call.result

\* The SeriesKeys of a store
KeysOf(store) == { store[i][1] : i \in 1..Len(store) }

\* C11: the SeriesKeys stored for each definition, and for its derived
\* definition, only grow: no message, accepted or rejected, and no scrape
\* removes a stored entry.
C11_StoredSeriesNeverRemoved ==
    [][ \A d \in DefIds :
          /\ KeysOf(StoreOf(MetricAt(d)))
                 \subseteq KeysOf(StoreOf(userdata'[d[1]][2][d[2]]))
          /\ "derived_metric" \in DOMAIN MetricAt(d)
             => /\ "derived_metric" \in DOMAIN userdata'[d[1]][2][d[2]]
                /\ KeysOf(StoreOf(MetricAt(d).derived_metric))
                     \subseteq KeysOf(StoreOf(
                         userdata'[d[1]][2][d[2]].derived_metric)) ]_vars

\* A definition holds two series after a message rejected for it and a
\* scrape
C11_Witness ==
    /\ scrape.done
    /\ \E d \in DefIds :
         /\ Len(StoreOf(MetricAt(d))) >= 2
         /\ \E k \in OutcomesFor(d) : last.outcomes[k].status = "rejected"

\* The call of _apply_label_config has ended
Applies == call.fn = "_apply_label_config" /\ call.done

\* How the call ended
CallOutcome ==
    [raised |-> call.raised, result |-> call.result, labels |-> call.out]

\* The rules from..to of a rule list
RulesFrom(lcs, from, to) == SubSeq(lcs, from, to)

\* The rules after the first k, applied to what the first k rules left
ThenApply(a, rest) ==
    IF a.raised # "none" \/ ~a.result THEN a
    ELSE _apply_label_config(a.labels, rest)

\* Rule k is reached: the rules before it neither rejected nor raised
Reaches(before) == before.raised = "none" /\ before.result

\* What a replace rule does to the labels it is reached with
ReplaceAlone(lc, labels, r) ==
    /\ r.raised = "none" => r.result
    /\ r.labels =
         IF \A i \in 1..Len(lc.source_labels) :
                DictHas(labels, lc.source_labels[i])
         THEN LET source ==
                    Join(lc.separator,
                         [i \in 1..Len(lc.source_labels) |->
                            DictGet(labels, lc.source_labels[i])])
              IN  IF ReMatch(lc.regex, source)
                  THEN DictSet(labels, lc.target_label,
                               ReSub(lc.regex, lc.replacement, source))
                  ELSE labels
         ELSE labels

\* C17: _apply_label_config is the fold of the rules in configured order:
\* at every position, the call ends as the rules after that position end
\* on the labels left by the rules before it; a replace rule never returns
\* a rejection, sets target_label to the substitution when the joined
\* source matches its regex, and otherwise leaves every label as it was.
C17_RulesFoldInOrder ==
    Applies =>
      \A k \in 1..Len(call.label_configs) :
        /\ CallOutcome =
             ThenApply(_apply_label_config(
                           call.labels,
                           RulesFrom(call.label_configs, 1, k - 1)),
                       RulesFrom(call.label_configs, k,
                                 Len(call.label_configs)))
        /\ call.label_configs[k].action = "replace"
           /\ Reaches(_apply_label_config(
                          call.labels,
                          RulesFrom(call.label_configs, 1, k - 1)))
           => ReplaceAlone(
                  call.label_configs[k],
                  _apply_label_config(
                      call.labels,
                      RulesFrom(call.label_configs, 1, k - 1)).labels,
                  _apply_label_config(
                      _apply_label_config(
                          call.labels,
                          RulesFrom(call.label_configs, 1, k - 1)).labels,
                      << call.label_configs[k] >>))

\* A keep rule on label r passed on the value an earlier replace rule
\* wrote, and a later replace rule then wrote r again
C17_Witness ==
    /\ Applies
    /\ Len(call.label_configs) = 3
    /\ call.label_configs[1].action = "replace"
    /\ call.label_configs[2].action = "keep"
    /\ call.label_configs[2].source_labels = << << "r" >> >>
    /\ call.label_configs[3].action = "replace"
    /\ call.raised = "none"
    /\ call.result
    /\ DictGet(call.out, << "r" >>) = << "z" >>

\* C15: a rule whose action is not replace, keep or drop rejects as soon
\* as it is reached: _apply_label_config returns False, without raising,
\* and the labels are as the rules before it left them.
C15_UnsupportedActionRejects ==
    Applies =>
      \A k \in 1..Len(call.label_configs) :
        /\ call.label_configs[k].action \notin { "replace", "keep", "drop" }
        /\ Reaches(_apply_label_config(
                       call.labels, RulesFrom(call.label_configs, 1, k - 1)))
        => /\ call.raised = "none"
           /\ ~call.result
           /\ call.out =
                _apply_label_config(
                    call.labels,
                    RulesFrom(call.label_configs, 1, k - 1)).labels

\* C16: a scrape taken while a definition of a declared type has no stored
\* entry ends without an error and holds a family of that definition's
\* name with no sample, together with a family for every other
\* definition.
C16_EmptyDefinitionGetsEmptyFamily ==
    ( /\ scrape.done
      /\ \A d \in DefIds : IsMetricType(MetricAt(d).type)
      /\ \E d \in DefIds : StoreOf(MetricAt(d)) = << >> )
    => /\ scrape.raised = "none"
       /\ \A d \in DefIds :
            /\ FamiliesNamed(MetricAt(d).name) # {}
            /\ StoreOf(MetricAt(d)) = << >>
               => \E f \in FamiliesNamed(MetricAt(d).name) :
                      scrape.families[f].samples = << >>

\* C18: accepted updates of one definition whose label sets differ are
\* stored under different SeriesKeys: the definition holds one entry per
\* accepted label set, each with the label values and the latest value of
\* that label set, also for label sets whose concatenated names and
\* concatenated values are the same.
C18_DifferentContentDifferentEntries ==
    \A d \in DefIds :
        /\ Len(StoreOf(MetricAt(d))) = Len(HistoryOf(d))
        /\ \A j \in 1..Len(HistoryOf(d)) :
             \E k \in 1..Len(StoreOf(MetricAt(d))) :
               /\ StoreOf(MetricAt(d))[k][2].label_values
                      = ValuesOf(HistoryOf(d)[j][1])
               /\ StoreOf(MetricAt(d))[k][2].value = HistoryOf(d)[j][2].value

\* Definition d is subscribed under a pattern the latest message matches
Matches(d) == _topic_matches(userdata[d[1]][1], last.msg.topic)

\* What definition d makes of the latest message on its own
Alone(d) == BuildLabels(MetricAt(d), last.msg)

\* C19: every definition the message matches is evaluated on its own fresh
\* label set: it is accepted or rejected, with the labels and the value,
\* as it is on its own, whatever the rules of the other matching
\* definitions made of the message.
C19_DefinitionsEvaluatedIndependently ==
    last.handled =>
      \A d \in DefIds :
        (Matches(d) /\ Alone(d).status # "raised")
        => /\ Cardinality(OutcomesFor(d)) = 1
           /\ \A k \in OutcomesFor(d) :
                /\ last.outcomes[k].status = Alone(d).status
                /\ last.outcomes[k].labels = Alone(d).labels

\* The labels of definition d for the latest message at the end of its
\* pipeline
PipelineEnd(d) ==
    Relabel(MetricAt(d), InitialLabels(MetricAt(d), last.msg)).labels

\* Some rule of the definition writes __topic__
TargetsTopic(metric) ==
    \E i \in 1..Len(RulesOf(metric)) :
        /\ RulesOf(metric)[i].action = "replace"
        /\ RulesOf(metric)[i].target_label = L__topic__

\* The entry of the store under the key of that label set
EntryOf(metric, labelset) ==
    DictGet(StoreOf(metric), SeriesKey(NamesOf(labelset), ValuesOf(labelset)))

\* C20: the labels stored for an accepted message have no name that starts
\* with __ and have a label topic; topic and the stored value are
\* __topic__ and __value__ as the rules left them, whatever the rules wrote
\* to labels named topic and value, and topic is the configured pattern of
\* the definition when no rule writes __topic__.
C20_TopicAndValueFromReservedLabels ==
    /\ \A d \in DefIds : \A j \in 1..Len(HistoryOf(d)) :
         /\ \A n \in 1..Len(HistoryOf(d)[j][1]) :
                ~StartsWith(HistoryOf(d)[j][1][n][1], << "_", "_" >>)
         /\ DictHas(HistoryOf(d)[j][1], L_topic)
         /\ ~TargetsTopic(MetricAt(d))
            => DictGet(HistoryOf(d)[j][1], L_topic) = MetricAt(d).topic
    /\ \A d \in DefIds : \A k \in OutcomesFor(d) :
         last.outcomes[k].status = "accepted"
         => /\ DictGet(last.outcomes[k].labels, L_topic)
                   = DictGet(PipelineEnd(d), L__topic__)
            /\ DictGet(last.outcomes[k].labels, L_value)
                   = Float(StrReplace(DictGet(PipelineEnd(d), L__value__),
                                      << "," >>, << "." >>))
            /\ MetricAt(d).label_names
                   = NamesOf(LabelSet(last.outcomes[k].labels))
            /\ EntryOf(MetricAt(d), LabelSet(last.outcomes[k].labels))
                   = [name |-> MetricAt(d).name,
                      label_values |->
                          ValuesOf(LabelSet(last.outcomes[k].labels)),
                      value |-> DictGet(last.outcomes[k].labels, L_value)]

\* A message was stored for a definition whose rules wrote labels named
\* topic and value: the stored topic is the configured pattern and the
\* stored value the payload
C20_Witness ==
    \E d \in DefIds : \E k \in OutcomesFor(d) :
        /\ last.outcomes[k].status = "accepted"
        /\ DictHas(PipelineEnd(d), L_topic)
        /\ DictHas(PipelineEnd(d), L_value)
        /\ DictGet(PipelineEnd(d), L_topic) = T_hk
        /\ DictGet(PipelineEnd(d), L_value) = << "9" >>
        /\ DictGet(last.outcomes[k].labels, L_topic) = T_hplus
        /\ DictGet(last.outcomes[k].labels, L_value) = [m |-> 1, e |-> 0]

=============================================================================
